---- MODULE Spec2Model ----
(***************************************************************************)
(* Model of the banking ledger of utils.py: the users and transactions     *)
(* tables of banking.db and the calls signup, deposit, withdraw and        *)
(* transfer, each running on its own sqlite3 connection.                   *)
(*                                                                         *)
(* Every call opens a fresh connection (get_connection), so concurrent     *)
(* calls interleave at the granularity of their SQL statements.  The       *)
(* connections use the sqlite3 module's default transaction control: a     *)
(* SELECT runs outside any transaction and reads the committed tables; the *)
(* first UPDATE/INSERT of a call opens a write transaction, which takes    *)
(* the database's single write lock; the statements of the transaction     *)
(* change the connection's private copy until commit() installs it;        *)
(* rollback() and close() drop it.  A connection that cannot get the write *)
(* lock waits and, when the busy timeout runs out, raises                  *)
(* sqlite3.OperationalError ("database is locked").                        *)
(*                                                                         *)
(* Amounts are integers here (the code stores REAL); the timestamp column  *)
(* is left out (it is written, never read by the ledger operations).       *)
(***************************************************************************)
EXTENDS Integers, Sequences, FiniteSets, TLC

\* ---------------------------------------------------------------- bounds
\* Total number of calls invoked in one behaviour.
MaxCalls == 2

\* The concurrent callers (one connection each at a time).
Procs == {1, 2}

\* Inputs of the calls.
Usernames == {"", "alice", "bob"}
Passwords == {"", "pw"}
Amounts   == {0, 60, 100}

Ops == {"signup", "deposit", "withdraw", "transfer"}

\* ------------------------------------------------ SQL statements (pure)
\* A fetchone() result: <<>> is None, <<v>> is the row (v,).
NoRow == <<>>

\* The tables right after create_tables() on a fresh file.
EmptyDb == [users |-> [u \in {} |-> [password |-> "", balance |-> 0]],
            transactions |-> <<>>]

\* SELECT balance FROM users WHERE username = ?
SelectBalance(users_, username) ==
    IF username \in DOMAIN users_ THEN <<users_[username].balance>> ELSE NoRow

\* SELECT username FROM users WHERE username = ?
SelectUsername(users_, username) ==
    IF username \in DOMAIN users_ THEN <<username>> ELSE NoRow

\* INSERT INTO users (username, password, balance) VALUES (?, ?, 0.0)
\* (the caller checks the PRIMARY KEY first: see UsernameTaken)
InsertUser(users_, username, hashed) ==
    [u \in DOMAIN users_ \cup {username} |->
        IF u = username THEN [password |-> hashed, balance |-> 0]
                        ELSE users_[u]]

\* (variant: no uniqueness constraint is enforced, the INSERT replaces the
\* row of an existing username)
UsernameNeverTaken(users_, username) == FALSE

\* username TEXT PRIMARY KEY: the INSERT raises sqlite3.IntegrityError
UsernameTaken(users_, username) == username \in DOMAIN users_

\* UPDATE users SET balance = balance + ? WHERE username = ?
\* (changes no row, and raises nothing, when the username has no row)
UpdateBalance(users_, username, delta) ==
    [u \in DOMAIN users_ |->
        IF u = username THEN [users_[u] EXCEPT !.balance = @ + delta]
                        ELSE users_[u]]

\* (variant: the new row is put in front of the existing rows)
InsertTransactionFirst(transactions_, username, type, amount, other_party) ==
    <<[username |-> username, type |-> type,
       amount |-> amount, other_party |-> other_party]>> \o transactions_

\* INSERT INTO transactions (username, type, amount, timestamp, other_party)
\* id INTEGER PRIMARY KEY AUTOINCREMENT is the position in the sequence.
InsertTransaction(transactions_, username, type, amount, other_party) ==
    Append(transactions_, [username |-> username, type |-> type,
                           amount |-> amount, other_party |-> other_party])

\* bcrypt.hashpw(password, gensalt()): a value checkpw matches to password
HashPw(password) == <<"bcrypt", password>>

\* ------------------------------------------------------------------ state
VARIABLES
    users,         \* committed users table: username -> [password, balance]
    transactions,  \* committed transactions table, in id order
    writer,        \* connection holding the write lock (0: none)
    pending,       \* the writer's uncommitted copy of both tables
    pc,            \* per caller: the statement it executes next
    call,          \* per caller: the current (or last) call and arguments
    row,           \* per caller: row / sender_row fetched by the SELECT
    result,        \* per caller: return value of its last call
    started,       \* per caller: what was committed when the call was
                   \*   invoked: the balance row of the call's account and
                   \*   the id of the last transactions row
    raised_at,     \* per caller: the statement of its last call that
                   \*   raised sqlite3.Error ("none": no statement did)
    ncalls,        \* calls invoked so far
    deposited,     \* sum of the amounts of deposit calls that returned True
    withdrawn,     \* sum of the amounts of withdraw calls that returned True
    credited,      \* per username: the balance its account opened with plus
                   \*   the signed amounts of the calls that returned True
                   \*   on the existing account
    fetched,       \* the last read call (get_balance, get_transactions,
                   \*   get_all_users): caller, argument, return value
    logged_in,     \* per browser session: st.session_state.logged_in
    session_username,  \* per browser session: st.session_state.username
    choice         \* per browser session: the sidebar selection of its
                   \*   last script run

vars == <<users, transactions, writer, pending, pc, call, row, result,
          started, raised_at, ncalls, deposited, withdrawn, credited,
          fetched, logged_in, session_username, choice>>

\* What the calls of utils.py never touch: the result of the last read and
\* the session state of giri.py.
outside == <<fetched, logged_in, session_username, choice>>

NoCall == [op |-> "none", username |-> "", other |-> "", amount |-> 0]

\* The database file outlives the process: create_tables() is CREATE TABLE
\* IF NOT EXISTS, so a run starts from the empty tables or from what
\* earlier calls committed.  SeededDb is the file after signup("alice"),
\* signup("bob") and deposit("alice", 100) ran one after the other.
SeededDb ==
    [users |-> UpdateBalance(
                   InsertUser(InsertUser(EmptyDb.users, "alice", HashPw("pw")),
                              "bob", HashPw("pw")),
                   "alice", 100),
     transactions |-> InsertTransaction(EmptyDb.transactions,
                                        "alice", "Deposit", 100, "")]

\* FundedDb is SeededDb after deposit("bob", 100).
FundedDb ==
    [users |-> UpdateBalance(SeededDb.users, "bob", 100),
     transactions |-> InsertTransaction(SeededDb.transactions,
                                        "bob", "Deposit", 100, "")]

\* The process starts on the file d, whose successful deposits sum to dep.
InitFrom(d, dep) ==
    /\ users = d.users
    /\ transactions = d.transactions
    /\ pending = d
    /\ deposited = dep
    /\ credited = [u \in Usernames |->
                     IF u \in DOMAIN d.users THEN d.users[u].balance ELSE 0]
    /\ withdrawn = 0
    /\ writer = 0
    /\ pc = [p \in Procs |-> "idle"]
    /\ call = [p \in Procs |-> NoCall]
    /\ row = [p \in Procs |-> NoRow]
    /\ result = [p \in Procs |-> "none"]
    /\ started = [p \in Procs |-> [balance |-> NoRow, id |-> 0]]
    /\ raised_at = [p \in Procs |-> "none"]
    /\ ncalls = 0
    /\ fetched = [op |-> "none", by |-> 0, username |-> "", value |-> 0]
    /\ logged_in = [p \in Procs |-> FALSE]
    /\ session_username = [p \in Procs |-> ""]
    /\ choice = [p \in Procs |-> "Signup"]

Init == InitFrom(EmptyDb, 0) \/ InitFrom(SeededDb, 100)

\* ---------------------------------------------------------------- helpers
\* First statement of each call.
EntryPc(op) ==
    CASE op = "signup"   -> "su_insert"
      [] op = "deposit"  -> "dep_update"
      [] op = "withdraw" -> "wd_select"
      [] op = "transfer" -> "tr_select_sender"

\* The call returns v; finally: conn.close() drops an open transaction.
Return(p, v) ==
    /\ pc' = [pc EXCEPT ![p] = "idle"]
    /\ result' = [result EXCEPT ![p] = v]
    /\ IF writer = p
         THEN /\ writer' = 0
              /\ pending' = [users |-> users, transactions |-> transactions]
         ELSE UNCHANGED <<writer, pending>>

\* A successful return also feeds the totals of successful amounts.
Tally(p, v) ==
    /\ deposited' = IF call[p].op = "deposit" /\ v = "True"
                      THEN deposited + call[p].amount ELSE deposited
    /\ withdrawn' = IF call[p].op = "withdraw" /\ v = "True"
                      THEN withdrawn + call[p].amount ELSE withdrawn
    /\ credited' =
          [u \in Usernames |->
             IF v = "True" /\ u \in DOMAIN users
               THEN credited[u]
                    + (IF \/ call[p].op = "deposit" /\ u = call[p].username
                          \/ call[p].op = "transfer" /\ u = call[p].other
                         THEN call[p].amount ELSE 0)
                    - (IF /\ call[p].op \in {"withdraw", "transfer"}
                          /\ u = call[p].username
                         THEN call[p].amount ELSE 0)
               ELSE credited[u]]

\* The connection may write: it holds the write lock or the lock is free.
CanWrite(p) == writer \in {0, p}

\* Execute a write statement inside the connection's transaction (opening
\* it, and taking the write lock, if this is the first one).
Write(p, newUsers, newTransactions, nextPc) ==
    /\ CanWrite(p)
    /\ writer' = p
    /\ pending' = [users |-> newUsers, transactions |-> newTransactions]
    /\ pc' = [pc EXCEPT ![p] = nextPc]
    /\ UNCHANGED <<users, transactions, call, row, result, started,
                   raised_at, deposited, withdrawn, credited, outside>>

\* conn.commit(): the transaction's copy becomes the committed tables.
CommittedTables(p) == pending

Commit(p, v) ==
    /\ writer = p
    /\ users' = CommittedTables(p).users
    /\ transactions' = CommittedTables(p).transactions
    /\ writer' = 0
    /\ pending' = CommittedTables(p)
    /\ pc' = [pc EXCEPT ![p] = "idle"]
    /\ result' = [result EXCEPT ![p] = v]
    /\ Tally(p, v)
    /\ UNCHANGED <<call, row, started, raised_at, outside>>

\* return False before any statement ran, or after the SELECTs.
Reject(p) ==
    /\ Return(p, "False")
    /\ UNCHANGED <<users, transactions, call, started, raised_at,
                   deposited, withdrawn, credited, outside>>

\* ------------------------------------------------------------------ calls
\* Caller p enters op(u, o, a): nothing has run yet.
Enter(p, op, u, o, a) ==
    /\ pc[p] = "idle"
    /\ ncalls < MaxCalls
    /\ call' = [call EXCEPT ![p] =
           [op |-> op, username |-> u, other |-> o, amount |-> a]]
    /\ pc' = [pc EXCEPT ![p] = EntryPc(op)]
    /\ started' = [started EXCEPT ![p] =
           [balance |-> SelectBalance(users, u),
            id |-> Len(transactions)]]
    /\ raised_at' = [raised_at EXCEPT ![p] = "none"]
    /\ result' = [result EXCEPT ![p] = "none"]
    /\ row' = [row EXCEPT ![p] = NoRow]
    /\ ncalls' = ncalls + 1
    /\ UNCHANGED <<users, transactions, writer, pending, deposited,
                   withdrawn, credited>>

\* A caller invokes signup/deposit/withdraw/transfer with some arguments.
Invoke(p) ==
    /\ \E op \in Ops, u \in Usernames, a \in Amounts,
          o \in Usernames \cup Passwords :
          /\ op = "signup" => (o \in Passwords /\ a = 0)
          /\ op = "transfer" => o \in Usernames
          /\ op \in {"deposit", "withdraw"} => (o = "" /\ u # "")
          /\ Enter(p, op, u, o, a)
    /\ UNCHANGED outside

\* ---- signup(username, password)
SignupArgsMissing(c) == c.username = "" \/ c.other = ""

SignupInsert(p) ==
    /\ pc[p] = "su_insert"
    /\ IF SignupArgsMissing(call[p])
         THEN Reject(p) /\ UNCHANGED row
         ELSE /\ CanWrite(p)
              /\ IF UsernameTaken(pending.users, call[p].username)
                   THEN Reject(p) /\ UNCHANGED row
                   ELSE Write(p, InsertUser(pending.users, call[p].username,
                                            HashPw(call[p].other)),
                              pending.transactions, "su_commit")
    /\ UNCHANGED ncalls

SignupCommit(p) ==
    /\ pc[p] = "su_commit"
    /\ Commit(p, "True")
    /\ UNCHANGED ncalls

\* ---- deposit(username, amount)
\* (variant: the check written as amount < 0, which lets 0 through)
InvalidAmountStrict(amount) == amount < 0

InvalidAmount(amount) == amount <= 0

\* (variant: the UPDATE runs in autocommit mode, outside a transaction, and
\* is committed on its own before the INSERT)
DepositUpdateAutocommit(p) ==
    /\ pc[p] = "dep_update"
    /\ IF call[p].amount <= 0
         THEN Reject(p) /\ UNCHANGED row
         ELSE /\ writer = 0
              /\ users' = UpdateBalance(users, call[p].username,
                                        call[p].amount)
              /\ pending' = [users |-> users', transactions |-> transactions]
              /\ pc' = [pc EXCEPT ![p] = "dep_insert"]
              /\ UNCHANGED <<transactions, writer, call, row, result,
                             started, raised_at, deposited, withdrawn,
                             credited, outside>>
    /\ UNCHANGED ncalls

DepositUpdate(p) ==
    /\ pc[p] = "dep_update"
    /\ IF InvalidAmount(call[p].amount)
         THEN Reject(p) /\ UNCHANGED row
         ELSE Write(p, UpdateBalance(pending.users, call[p].username,
                                     call[p].amount),
                    pending.transactions, "dep_insert")
    /\ UNCHANGED ncalls

DepositInsert(p) ==
    /\ pc[p] = "dep_insert"
    /\ Write(p, pending.users,
             InsertTransaction(pending.transactions, call[p].username,
                               "Deposit", call[p].amount, ""),
             "dep_commit")
    /\ UNCHANGED ncalls

DepositCommit(p) ==
    /\ pc[p] = "dep_commit"
    /\ Commit(p, "True")
    /\ UNCHANGED ncalls

\* ---- withdraw(username, amount)
\* (variant: the check only asks for a positive balance)
InsufficientFundsLoose(r, amount) == r = NoRow \/ r[1] <= 0

\* not row or row[0] < amount
InsufficientFunds(r, amount) == r = NoRow \/ r[1] < amount

\* A step that only reads: fetch r, then return False or go on to nextPc.
Check(p, r, reject, nextPc) ==
    /\ row' = [row EXCEPT ![p] = r]
    /\ IF reject
         THEN Reject(p)
         ELSE /\ pc' = [pc EXCEPT ![p] = nextPc]
              /\ UNCHANGED <<users, transactions, writer, pending, call,
                             result, started, raised_at, deposited,
                             withdrawn, credited, outside>>

WithdrawSelect(p) ==
    /\ pc[p] = "wd_select"
    /\ IF InvalidAmount(call[p].amount)
         THEN Reject(p) /\ UNCHANGED row
         ELSE LET r == SelectBalance(users, call[p].username)
              IN  Check(p, r, InsufficientFunds(r, call[p].amount),
                        "wd_update")
    /\ UNCHANGED ncalls

\* (variant: the new balance is computed from the row the SELECT fetched
\* and written as an absolute value)
WithdrawUpdateAbsolute(p) ==
    /\ pc[p] = "wd_update"
    /\ Write(p, [u \in DOMAIN pending.users |->
                   IF u = call[p].username
                     THEN [pending.users[u] EXCEPT
                             !.balance = row[p][1] - call[p].amount]
                     ELSE pending.users[u]],
             pending.transactions, "wd_insert")
    /\ UNCHANGED ncalls

WithdrawUpdate(p) ==
    /\ pc[p] = "wd_update"
    /\ Write(p, UpdateBalance(pending.users, call[p].username,
                              0 - call[p].amount),
             pending.transactions, "wd_insert")
    /\ UNCHANGED ncalls

WithdrawInsert(p) ==
    /\ pc[p] = "wd_insert"
    /\ Write(p, pending.users,
             InsertTransaction(pending.transactions, call[p].username,
                               "Withdraw", call[p].amount, ""),
             "wd_commit")
    /\ UNCHANGED ncalls

WithdrawCommit(p) ==
    /\ pc[p] = "wd_commit"
    /\ Commit(p, "True")
    /\ UNCHANGED ncalls

\* ---- transfer(sender, receiver, amount): username is the sender, other
\* the receiver
TransferArgsInvalid(c) ==
    \/ c.amount <= 0
    \/ c.username = ""
    \/ c.other = ""
    \/ c.username = c.other

TransferSelectSender(p) ==
    /\ pc[p] = "tr_select_sender"
    /\ IF TransferArgsInvalid(call[p])
         THEN Reject(p) /\ UNCHANGED row
         ELSE Check(p, SelectBalance(users, call[p].username), FALSE,
                    "tr_select_receiver")
    /\ UNCHANGED ncalls

\* not sender_row or not receiver_row or sender_row[0] < amount
TransferRefused(sender_row, receiver_row, amount) ==
    \/ sender_row = NoRow
    \/ receiver_row = NoRow
    \/ sender_row[1] < amount

\* The receiver's SELECT, the check, and BEGIN (which takes no lock).
TransferSelectReceiver(p) ==
    /\ pc[p] = "tr_select_receiver"
    /\ LET receiver_row == SelectUsername(users, call[p].other)
       IN  Check(p, row[p],
                 TransferRefused(row[p], receiver_row, call[p].amount),
                 "tr_debit")
    /\ UNCHANGED ncalls

TransferDebit(p) ==
    /\ pc[p] = "tr_debit"
    /\ Write(p, UpdateBalance(pending.users, call[p].username,
                              0 - call[p].amount),
             pending.transactions, "tr_credit")
    /\ UNCHANGED ncalls

TransferCredit(p) ==
    /\ pc[p] = "tr_credit"
    /\ Write(p, UpdateBalance(pending.users, call[p].other, call[p].amount),
             pending.transactions, "tr_log_out")
    /\ UNCHANGED ncalls

TransferLogOut(p) ==
    /\ pc[p] = "tr_log_out"
    /\ Write(p, pending.users,
             InsertTransaction(pending.transactions, call[p].username,
                               "transfer_out", call[p].amount, call[p].other),
             "tr_log_in")
    /\ UNCHANGED ncalls

\* (variant: the receiver's transfer_in row is not written)
TransferLogInSkipped(p) ==
    /\ pc[p] = "tr_log_in"
    /\ Write(p, pending.users, pending.transactions, "tr_commit")
    /\ UNCHANGED ncalls

TransferLogIn(p) ==
    /\ pc[p] = "tr_log_in"
    /\ Write(p, pending.users,
             InsertTransaction(pending.transactions, call[p].other,
                               "transfer_in", call[p].amount, call[p].username),
             "tr_commit")
    /\ UNCHANGED ncalls

TransferCommit(p) ==
    /\ pc[p] = "tr_commit"
    /\ Commit(p, "True")
    /\ UNCHANGED ncalls

\* ---- storage failures
\* The statements inside deposit's, withdraw's and transfer's
\* try ... except sqlite3.Error, and signup's INSERT and commit.
GuardedPcs == {"dep_update", "dep_insert", "dep_commit",
               "wd_update", "wd_insert", "wd_commit",
               "tr_debit", "tr_credit", "tr_log_out", "tr_log_in",
               "tr_commit"}
SignupPcs == {"su_insert", "su_commit"}

\* What the call returns when a statement raises sqlite3.Error other than
\* IntegrityError (lock timeout, I/O error, full disk): deposit, withdraw
\* and transfer roll back and return False; signup catches only
\* IntegrityError, so the exception leaves the call.
OnStorageError(op) == IF op = "signup" THEN "Raised" ELSE "False"

\* (variant: the handler commits what the transaction wrote so far instead
\* of rolling it back)
StorageErrorCommits(p) ==
    /\ pc[p] \in GuardedPcs \cup SignupPcs
    /\ pc[p] = "dep_update" => call[p].amount > 0
    /\ pc[p] = "su_insert" => ~SignupArgsMissing(call[p])
    /\ pc' = [pc EXCEPT ![p] = "idle"]
    /\ result' = [result EXCEPT ![p] = OnStorageError(call[p].op)]
    /\ raised_at' = [raised_at EXCEPT ![p] = pc[p]]
    /\ IF writer = p
         THEN /\ users' = pending.users
              /\ transactions' = pending.transactions
              /\ writer' = 0
              /\ UNCHANGED pending
         ELSE UNCHANGED <<users, transactions, writer, pending>>
    /\ UNCHANGED <<call, row, started, ncalls, deposited, withdrawn,
                   credited, outside>>

\* (variant: the handler neither rolls back nor closes the connection, so
\* the transaction stays open and keeps the write lock)
StorageErrorKeepsLock(p) ==
    /\ pc[p] \in GuardedPcs \cup SignupPcs
    /\ pc[p] = "dep_update" => call[p].amount > 0
    /\ pc[p] = "su_insert" => ~SignupArgsMissing(call[p])
    /\ pc' = [pc EXCEPT ![p] = "idle"]
    /\ result' = [result EXCEPT ![p] = OnStorageError(call[p].op)]
    /\ raised_at' = [raised_at EXCEPT ![p] = pc[p]]
    /\ UNCHANGED <<users, transactions, writer, pending, call, row, started,
                   ncalls, deposited, withdrawn, credited, outside>>

\* The statement the caller is about to execute raises: the transaction, if
\* one is open, is rolled back (conn.rollback() or conn.close()).
StorageError(p) ==
    /\ pc[p] \in GuardedPcs \cup SignupPcs
    /\ pc[p] = "dep_update" => ~InvalidAmount(call[p].amount)
    /\ pc[p] = "su_insert" => ~SignupArgsMissing(call[p])
    /\ Return(p, OnStorageError(call[p].op))
    /\ raised_at' = [raised_at EXCEPT ![p] = pc[p]]
    /\ UNCHANGED <<users, transactions, call, row, started, ncalls,
                   deposited, withdrawn, credited, outside>>

Next ==
    \E p \in Procs :
        \/ Invoke(p)
        \/ SignupInsert(p)
        \/ SignupCommit(p)
        \/ DepositUpdate(p)
        \/ DepositInsert(p)
        \/ DepositCommit(p)
        \/ WithdrawSelect(p)
        \/ WithdrawUpdate(p)
        \/ WithdrawInsert(p)
        \/ WithdrawCommit(p)
        \/ TransferSelectSender(p)
        \/ TransferSelectReceiver(p)
        \/ TransferDebit(p)
        \/ TransferCredit(p)
        \/ TransferLogOut(p)
        \/ TransferLogIn(p)
        \/ TransferCommit(p)
        \/ StorageError(p)

Spec == Init /\ [][Next]_vars

\* ---- read calls: one SELECT each, on a fresh connection
\* (variant: a missing username is reported by a value no balance has)
GetBalanceSentinel(users_, username) ==
    IF username \in DOMAIN users_ THEN users_[username].balance ELSE 0 - 1

\* get_balance: float(row[0]) if row else 0.0
GetBalance(users_, username) ==
    IF SelectBalance(users_, username) = NoRow
      THEN 0
      ELSE SelectBalance(users_, username)[1]

\* The columns get_transactions selects: type, amount, other_party
\* (and the timestamp, which the model leaves out).
SelectedColumns(entry) ==
    [type |-> entry.type, amount |-> entry.amount,
     other_party |-> entry.other_party]

\* The selected columns of the rows, in the rows' (id) order.
SelectRows(rows) ==
    [i \in 1..Len(rows) |-> SelectedColumns(rows[i])]

\* (variant: WHERE username = ? OR other_party = ?)
GetTransactionsEitherParty(transactions_, username) ==
    LET where(r) == r.username = username \/ r.other_party = username
    IN  SelectRows(SelectSeq(transactions_, where))

\* get_transactions: ... WHERE username = ? ORDER BY id ASC
GetTransactions(transactions_, username) ==
    LET where(r) == r.username = username
    IN  SelectRows(SelectSeq(transactions_, where))

\* Usernames in ascending order (ORDER BY username ASC, BINARY collation).
NameOrder == <<"", "alice", "bob">>

\* get_all_users: SELECT username, balance FROM users ORDER BY username ASC
GetAllUsers(users_) ==
    LET present(u) == u \in DOMAIN users_
        pair(u) == <<u, users_[u].balance>>
        RECURSIVE rows(_)
        rows(names) == IF names = <<>> THEN <<>>
                       ELSE (IF present(Head(names))
                               THEN <<pair(Head(names))>> ELSE <<>>)
                            \o rows(Tail(names))
    IN  rows(NameOrder)

\* Caller p makes the read call op(u), which returns v.
Fetch(p, op, u, v) ==
    /\ pc[p] = "idle"
    /\ ncalls < MaxCalls
    /\ fetched' = [op |-> op, by |-> p, username |-> u, value |-> v]
    /\ ncalls' = ncalls + 1
    /\ UNCHANGED <<users, transactions, writer, pending, pc, call, row,
                   result, started, raised_at, deposited, withdrawn,
                   credited>>

session == <<logged_in, session_username, choice>>

GetBalanceCall(p) ==
    /\ \E u \in Usernames : Fetch(p, "get_balance", u, GetBalance(users, u))
    /\ UNCHANGED session

GetTransactionsCall(p) ==
    /\ \E u \in Usernames :
          Fetch(p, "get_transactions", u, GetTransactions(transactions, u))
    /\ UNCHANGED session

GetAllUsersCall(p) ==
    /\ Fetch(p, "get_all_users", "", GetAllUsers(users))
    /\ UNCHANGED session

\* The writers the readers run against: deposits and transfers.
InvokeDepositOrTransfer(p) ==
    /\ Invoke(p)
    /\ call'[p].op \in {"deposit", "transfer"}

\* Callers that read while others deposit and transfer.
NextReads ==
    \E p \in Procs :
        \/ InvokeDepositOrTransfer(p)
        \/ DepositUpdate(p)
        \/ DepositInsert(p)
        \/ DepositCommit(p)
        \/ TransferSelectSender(p)
        \/ TransferSelectReceiver(p)
        \/ TransferDebit(p)
        \/ TransferCredit(p)
        \/ TransferLogOut(p)
        \/ TransferLogIn(p)
        \/ TransferCommit(p)
        \/ StorageError(p)
        \/ GetBalanceCall(p)
        \/ GetTransactionsCall(p)
        \/ GetAllUsersCall(p)

SpecReads == Init /\ [][NextReads]_vars

\* ---- withdraw and transfer calls that run alone
\* A call is invoked so that no withdraw or transfer overlaps another
\* mutating call: a withdraw or transfer starts only when no other call is
\* running, and nothing starts while a withdraw or transfer is running.
InvokeIsolated(p) ==
    /\ \A q \in Procs \ {p} :
          pc[q] = "idle" \/ call[q].op \notin {"withdraw", "transfer"}
    /\ Invoke(p)
    /\ call'[p].op \in {"withdraw", "transfer"}
          => \A q \in Procs \ {p} : pc[q] = "idle"

NextIsolated ==
    \E p \in Procs :
        \/ InvokeIsolated(p)
        \/ SignupInsert(p)
        \/ SignupCommit(p)
        \/ DepositUpdate(p)
        \/ DepositInsert(p)
        \/ DepositCommit(p)
        \/ WithdrawSelect(p)
        \/ WithdrawUpdate(p)
        \/ WithdrawInsert(p)
        \/ WithdrawCommit(p)
        \/ TransferSelectSender(p)
        \/ TransferSelectReceiver(p)
        \/ TransferDebit(p)
        \/ TransferCredit(p)
        \/ TransferLogOut(p)
        \/ TransferLogIn(p)
        \/ TransferCommit(p)
        \/ StorageError(p)

SpecIsolated == Init /\ [][NextIsolated]_vars

\* ---- transfers only, with fair scheduling
\* Callers that only transfer, on a file where both accounts hold money.
InitTransfers == InitFrom(FundedDb, 200)

InvokeTransfer(p) ==
    /\ \E u \in Usernames, o \in Usernames, a \in Amounts :
          Enter(p, "transfer", u, o, a)
    /\ UNCHANGED outside

\* The next statement of p's transfer runs without raising.
Proceed(p) ==
    \/ TransferSelectSender(p)
    \/ TransferSelectReceiver(p)
    \/ TransferDebit(p)
    \/ TransferCredit(p)
    \/ TransferLogOut(p)
    \/ TransferLogIn(p)
    \/ TransferCommit(p)

NextTransfers ==
    \E p \in Procs :
        \/ InvokeTransfer(p)
        \/ TransferSelectSender(p)
        \/ TransferSelectReceiver(p)
        \/ TransferDebit(p)
        \/ TransferCredit(p)
        \/ TransferLogOut(p)
        \/ TransferLogIn(p)
        \/ TransferCommit(p)
        \/ StorageError(p)

\* Each caller's thread keeps being scheduled, and a statement whose lock
\* stays available is executed; a statement may raise (lock timeout
\* included) at any time, but nothing forces it to.
FairTransfers ==
    /\ InitTransfers
    /\ [][NextTransfers]_vars
    /\ \A p \in Procs : WF_vars(Proceed(p))

\* ---- giri.py: each p is a browser session with its own session state;
\* one action is one script run, triggered by one user interaction.
\* A text typed into a text_input: a sequence of words and blanks.
Blank == " "

Typed == {<<>>, <<Blank>>, <<"alice">>, <<Blank, "alice", Blank>>, <<"bob">>}

\* A password that no account was created with.
TypedPasswords == Passwords \cup {"bad"}

\* number_input(min_value=0.01): the form never submits 0 or less
TypedAmounts == {a \in Amounts : a > 0}

RECURSIVE LStrip(_)
LStrip(s) == IF s # <<>> /\ Head(s) = Blank THEN LStrip(Tail(s)) ELSE s

RECURSIVE RStrip(_)
RStrip(s) ==
    IF s # <<>> /\ s[Len(s)] = Blank
      THEN RStrip(SubSeq(s, 1, Len(s) - 1)) ELSE s

\* str.strip(), as the username it leaves (the typed texts hold one word)
Strip(s) == LET t == RStrip(LStrip(s)) IN IF t = <<>> THEN "" ELSE t[1]

\* bcrypt.checkpw(password, stored_hash)
CheckPw(password, hashed) == hashed = HashPw(password)

\* (variant: a username without a row is accepted)
LoginWithoutRow(users_, username, password) ==
    /\ username # "" /\ password # ""
    /\ username \in DOMAIN users_ => CheckPw(password, users_[username].password)

\* login(username, password): SELECT password FROM users WHERE username = ?
Login(users_, username, password) ==
    /\ username # "" /\ password # ""
    /\ username \in DOMAIN users_
    /\ CheckPw(password, users_[username].password)

\* st.sidebar.selectbox("Menu", ...)
Menu(logged) == IF logged THEN {"Dashboard", "Admin Panel", "Logout"}
                          ELSE {"Signup", "Login"}

\* The user picks c in the sidebar of session p and the script reruns.
Select(p, c) ==
    /\ pc[p] = "idle"
    /\ c \in Menu(logged_in[p])
    /\ choice' = [choice EXCEPT ![p] = c]

\* (variant: the logout keeps the session logged in)
DoLogoutKeepsSession(p) == UNCHANGED <<logged_in, session_username>>

DoLogout(p) ==
    /\ logged_in' = [logged_in EXCEPT ![p] = FALSE]
    /\ session_username' = [session_username EXCEPT ![p] = ""]

ledger == <<users, transactions, writer, pending, pc, call, row, result,
            started, raised_at, ncalls, deposited, withdrawn, credited>>

\* Signup page, form submitted.
UISignup(p) ==
    /\ Select(p, "Signup")
    /\ \E uname \in Typed, pwd \in Passwords :
          IF uname = <<>> \/ pwd = ""
            THEN UNCHANGED ledger
            ELSE Enter(p, "signup", Strip(uname), pwd, 0)
    /\ UNCHANGED <<fetched, logged_in, session_username>>

\* Login page, form submitted: one call of login, a read of the users table.
UILogin(p) ==
    /\ Select(p, "Login")
    /\ \E uname \in Typed, pwd \in TypedPasswords :
          LET ok == Login(users, Strip(uname), pwd) IN
          /\ Fetch(p, "login", Strip(uname), ok)
          /\ IF ok
               THEN /\ logged_in' = [logged_in EXCEPT ![p] = TRUE]
                    /\ session_username' =
                           [session_username EXCEPT ![p] = Strip(uname)]
               ELSE UNCHANGED <<logged_in, session_username>>

UILogout(p) ==
    /\ Select(p, "Logout")
    /\ DoLogout(p)
    /\ UNCHANGED <<ledger, fetched>>

\* The Dashboard branch: its header shows get_balance of the session user.
Dashboard(p) ==
    /\ Select(p, "Dashboard")
    /\ logged_in[p]

ShowBalance(p) ==
    fetched' = [op |-> "get_balance", by |-> p,
                username |-> session_username[p],
                value |-> GetBalance(users, session_username[p])]

\* Dashboard, no form submitted.
UIBalance(p) ==
    /\ Dashboard(p)
    /\ Fetch(p, "get_balance", session_username[p],
             GetBalance(users, session_username[p]))
    /\ UNCHANGED <<logged_in, session_username>>

UIDeposit(p) ==
    /\ Dashboard(p)
    /\ ShowBalance(p)
    /\ \E amt \in TypedAmounts :
          Enter(p, "deposit", session_username[p], "", amt)
    /\ UNCHANGED <<logged_in, session_username>>

UIWithdraw(p) ==
    /\ Dashboard(p)
    /\ ShowBalance(p)
    /\ \E amt \in TypedAmounts :
          Enter(p, "withdraw", session_username[p], "", amt)
    /\ UNCHANGED <<logged_in, session_username>>

\* A receiver equal to the session user is refused by the form: that run
\* makes no call beyond the header's get_balance (UIBalance).
UITransfer(p) ==
    /\ Dashboard(p)
    /\ ShowBalance(p)
    /\ \E receiver \in Typed, amt \in TypedAmounts :
          /\ Strip(receiver) # session_username[p]
          /\ Enter(p, "transfer", session_username[p], Strip(receiver), amt)
    /\ UNCHANGED <<logged_in, session_username>>

\* Dashboard, "Transaction History".
UIHistory(p) ==
    /\ Dashboard(p)
    /\ Fetch(p, "get_transactions", session_username[p],
             GetTransactions(transactions, session_username[p]))
    /\ UNCHANGED <<logged_in, session_username>>

UIAdminPanel(p) ==
    /\ Select(p, "Admin Panel")
    /\ logged_in[p]
    /\ Fetch(p, "get_all_users", "", GetAllUsers(users))
    /\ UNCHANGED <<logged_in, session_username>>

\* The sessions of the app, and the statements of the calls they started.
NextUI ==
    \E p \in Procs :
        \/ UISignup(p)
        \/ UILogin(p)
        \/ UILogout(p)
        \/ UIBalance(p)
        \/ UIDeposit(p)
        \/ UIWithdraw(p)
        \/ UITransfer(p)
        \/ UIHistory(p)
        \/ UIAdminPanel(p)
        \/ SignupInsert(p)
        \/ SignupCommit(p)
        \/ DepositUpdate(p)
        \/ DepositInsert(p)
        \/ DepositCommit(p)
        \/ WithdrawSelect(p)
        \/ WithdrawUpdate(p)
        \/ WithdrawInsert(p)
        \/ WithdrawCommit(p)
        \/ TransferSelectSender(p)
        \/ TransferSelectReceiver(p)
        \/ TransferDebit(p)
        \/ TransferCredit(p)
        \/ TransferLogOut(p)
        \/ TransferLogIn(p)
        \/ TransferCommit(p)
        \/ StorageError(p)

SpecUI == Init /\ [][NextUI]_vars

\* ------------------------------------------------------------ properties
\* p's last call has returned.
Returned(p) == pc[p] = "idle" /\ result[p] # "none"

\* Two calls overlap: no transaction was committed between their
\* invocations, so neither had returned True when the other was invoked.
Concurrent(p, q) ==
    /\ p # q
    /\ call[p].op # "none" /\ call[q].op # "none"
    /\ started[p].id = started[q].id

RECURSIVE SumBalances(_)
SumBalances(users_) ==
    IF DOMAIN users_ = {} THEN 0
    ELSE LET u == CHOOSE x \in DOMAIN users_ : TRUE
         IN  users_[u].balance
               + SumBalances([x \in DOMAIN users_ \ {u} |-> users_[x]])

\* Signed amount of a log entry: Deposit and transfer_in count positive,
\* Withdraw and transfer_out negative.
Signed(entry) ==
    IF entry.type \in {"Deposit", "transfer_in"} THEN entry.amount
                                                 ELSE 0 - entry.amount

RECURSIVE SignedSum(_, _)
SignedSum(transactions_, username) ==
    IF transactions_ = <<>> THEN 0
    ELSE (IF Head(transactions_).username = username
            THEN Signed(Head(transactions_)) ELSE 0)
         + SignedSum(Tail(transactions_), username)

\* C1: two concurrent withdraw calls of 60 against one account holding 100
\* end, when no statement of theirs raised a storage error, with exactly
\* one True and one False, and a final balance of 40.
ConcurrentWithdrawOneWinner ==
    \A p, q \in Procs :
        ( /\ Concurrent(p, q)
          /\ Returned(p) /\ Returned(q)
          /\ raised_at[p] = "none" /\ raised_at[q] = "none"
          /\ call[p].op = "withdraw" /\ call[q].op = "withdraw"
          /\ call[p].username = call[q].username
          /\ call[p].amount = 60 /\ call[q].amount = 60
          /\ started[p].balance = <<100>> /\ started[q].balance = <<100>> )
        => /\ {result[p], result[q]} = {"True", "False"}
           /\ users[call[p].username].balance = 40

\* C2: in every committed state every account's balance is >= 0.
NonNegativeBalances ==
    \A u \in DOMAIN users : users[u].balance >= 0

\* C3: two concurrent calls that debit the same account, a transfer and
\* another transfer or a withdraw, whose amounts together exceed the
\* balance the account held, never both return True.
TransferCheckAtomicWithDebit ==
    \A p, q \in Procs :
        ( /\ Concurrent(p, q)
          /\ call[p].op = "transfer"
          /\ call[q].op \in {"transfer", "withdraw"}
          /\ call[p].username = call[q].username
          /\ started[p].balance # NoRow
          /\ started[p].balance = started[q].balance
          /\ call[p].amount + call[q].amount > started[p].balance[1] )
        => ~(result[p] = "True" /\ result[q] = "True")

\* C4: the sum of all balances equals the sum of the amounts of the deposit
\* calls that returned True minus that of the withdraw calls that returned
\* True.
Conservation ==
    SumBalances(users) = deposited - withdrawn

\* C5: a deposit with amount > 0 for a username that has no account returns
\* False and appends no Deposit entry (accounts are never deleted, so a
\* deposit that returned True, and every Deposit entry, names an account).
DepositUnknownAccountFails ==
    /\ \A p \in Procs :
          (Returned(p) /\ call[p].op = "deposit" /\ result[p] = "True")
          => call[p].username \in DOMAIN users
    /\ \A i \in DOMAIN transactions :
          transactions[i].type = "Deposit"
          => transactions[i].username \in DOMAIN users

\* C6: every account's balance is the signed sum of the log entries that
\* carry its username, and every log entry's username is an account.
HistoryComplete ==
    /\ \A u \in DOMAIN users :
          users[u].balance = SignedSum(transactions, u)
    /\ \A i \in DOMAIN transactions :
          transactions[i].username \in DOMAIN users

\* The step is taken by caller p (every action of p moves pc[p]).
StepBy(p) == pc'[p] # pc[p]

TablesUnchanged == users' = users /\ transactions' = transactions

\* The rows the step appended to the committed transactions table.
Appended ==
    SubSeq(transactions', Len(transactions) + 1, Len(transactions'))

\* users' is users with delta added to the balance of the row of username,
\* if there is one, and nothing else changed.
BalanceMoved(username, delta) ==
    /\ DOMAIN users' = DOMAIN users
    /\ \A x \in DOMAIN users :
          /\ users'[x].password = users[x].password
          /\ users'[x].balance =
                users[x].balance + (IF x = username THEN delta ELSE 0)

\* C7: a transfer call that does not return True (a failed precondition, or
\* a storage error at one of its four write statements or at commit) never
\* changes the committed users or transactions table: every step of a
\* transfer call either is the one that returns True or leaves both tables
\* as they are.
TransferFailureAtomic ==
    [][\A p \in Procs :
          (StepBy(p) /\ pc[p] # "idle" /\ call[p].op = "transfer")
          => /\ result'[p] # "True" => TablesUnchanged
             /\ raised_at'[p] # "none" => result'[p] = "False"]_vars

\* A transfer whose checks passed failed at a statement after the debit.
TransferFailedAfterDebit ==
    \E p \in Procs :
        /\ Returned(p) /\ call[p].op = "transfer"
        /\ result[p] = "False"
        /\ raised_at[p] \in {"tr_credit", "tr_log_out", "tr_log_in",
                             "tr_commit"}
        /\ users[call[p].username].balance = row[p][1]

\* Number of rows of the log equal to entry.
CountEntries(transactions_, entry) ==
    Cardinality({i \in DOMAIN transactions_ : transactions_[i] = entry})

\* The row on the other side of a transfer row.
Mirror(entry) ==
    [username |-> entry.other_party,
     type |-> IF entry.type = "transfer_out" THEN "transfer_in"
                                             ELSE "transfer_out",
     amount |-> entry.amount,
     other_party |-> entry.username]

PairedLog ==
    \A i \in DOMAIN transactions :
        transactions[i].type \in {"transfer_out", "transfer_in"}
        => CountEntries(transactions, transactions[i])
             = CountEntries(transactions, Mirror(transactions[i]))

\* C8: in every committed state the transfer_out and transfer_in rows pair
\* up one to one (same amount, mirrored username and other_party), and the
\* committed tables show a transfer whole or not at all: a step of a
\* transfer call changes nothing, or debits the sender, credits the
\* receiver and appends both rows at once; no other call appends a
\* transfer row.
TransferPairing ==
    /\ []PairedLog
    /\ [][\A p \in Procs :
            (StepBy(p) /\ pc[p] # "idle")
            => IF call[p].op = "transfer"
                 THEN \/ TablesUnchanged
                      \/ /\ DOMAIN users' = DOMAIN users
                         /\ \A x \in DOMAIN users :
                              users'[x].balance = users[x].balance
                                + (IF x = call[p].other
                                     THEN call[p].amount ELSE 0)
                                - (IF x = call[p].username
                                     THEN call[p].amount ELSE 0)
                         /\ Appended =
                              << [username |-> call[p].username,
                                  type |-> "transfer_out",
                                  amount |-> call[p].amount,
                                  other_party |-> call[p].other],
                                 [username |-> call[p].other,
                                  type |-> "transfer_in",
                                  amount |-> call[p].amount,
                                  other_party |-> call[p].username] >>
                 ELSE \A i \in DOMAIN Appended :
                        Appended[i].type \notin {"transfer_out",
                                                 "transfer_in"}]_vars

\* A transfer has committed: its two rows are the last of the log.
TransferCommitted ==
    \E p \in Procs :
        /\ Returned(p) /\ call[p].op = "transfer" /\ result[p] = "True"
        /\ Len(transactions) >= 2
        /\ transactions[Len(transactions)].type = "transfer_in"
        /\ transactions[Len(transactions) - 1].type = "transfer_out"
        /\ users[call[p].other].balance >= call[p].amount

\* The check caller p is about to make fails.
PreconditionFails(p) ==
    \/ /\ pc[p] \in {"dep_update", "wd_select", "tr_select_sender"}
       /\ call[p].amount <= 0
    \/ /\ pc[p] = "tr_select_sender"
       /\ call[p].username = call[p].other
    \/ /\ pc[p] = "wd_select"
       /\ \/ call[p].username \notin DOMAIN users
          \/ users[call[p].username].balance < call[p].amount
    \/ /\ pc[p] = "tr_select_receiver"
       /\ \/ row[p] = NoRow
          \/ row[p][1] < call[p].amount
          \/ call[p].other \notin DOMAIN users

\* C9: a deposit, withdraw or transfer call rejected by a precondition
\* check (amount <= 0; sender = receiver; unknown account, sender or
\* receiver of a withdraw or transfer; balance < amount) returns False, and
\* neither the rejecting step nor the SELECTs before it change the
\* committed tables.
PreconditionRejection ==
    [][\A p \in Procs :
          StepBy(p)
          => /\ PreconditionFails(p)
                  => /\ pc'[p] = "idle"
                     /\ result'[p] = "False"
                     /\ TablesUnchanged
             /\ pc[p] \in {"wd_select", "tr_select_sender",
                           "tr_select_receiver"} => TablesUnchanged]_vars

\* A withdraw was refused for insufficient funds, a transfer for an
\* unknown receiver or sender = receiver, and a deposit for its amount.
SomeCallRejected ==
    \E p \in Procs :
        /\ Returned(p) /\ result[p] = "False" /\ raised_at[p] = "none"
        /\ \/ /\ call[p].op = "withdraw"
              /\ row[p] # NoRow /\ row[p][1] < call[p].amount
           \/ /\ call[p].op = "transfer"
              /\ call[p].amount > 0
              /\ call[p].other \notin DOMAIN users
           \/ /\ call[p].op = "deposit"
              /\ call[p].amount <= 0

SignupOnlyIfAbsent ==
    /\ [](\A p, q \in Procs :
            ( /\ Concurrent(p, q)
              /\ Returned(p) /\ Returned(q)
              /\ raised_at[p] = "none" /\ raised_at[q] = "none"
              /\ call[p].op = "signup" /\ call[q].op = "signup"
              /\ call[p].username = call[q].username
              /\ ~SignupArgsMissing(call[p]) /\ ~SignupArgsMissing(call[q])
              /\ started[p].balance = NoRow /\ started[q].balance = NoRow )
            => {result[p], result[q]} = {"True", "False"})
    /\ [][\A p \in Procs :
            (StepBy(p) /\ pc[p] # "idle" /\ call[p].op = "signup")
            => /\ \/ result'[p] # "True" /\ TablesUnchanged
                  \/ /\ result'[p] = "True"
                     /\ call[p].username \notin DOMAIN users
                     /\ DOMAIN users' = DOMAIN users \cup {call[p].username}
                     /\ users'[call[p].username] =
                          [password |-> <<"bcrypt", call[p].other>>,
                           balance |-> 0]
                     /\ \A x \in DOMAIN users : users'[x] = users[x]
                     /\ transactions' = transactions
               /\ (pc[p] = "su_insert" /\ call[p].username \in DOMAIN users)
                    => /\ pc'[p] = "idle"
                       /\ result'[p] \in {"False", "Raised"}]_vars

\* Two signups for the same new username raced: one won, one was refused.
SignupRaceDecided ==
    \E p, q \in Procs :
        /\ Concurrent(p, q)
        /\ call[p].op = "signup" /\ call[q].op = "signup"
        /\ call[p].username = call[q].username
        /\ started[p].balance = NoRow /\ started[q].balance = NoRow
        /\ Returned(p) /\ Returned(q)
        /\ result[p] = "True" /\ result[q] = "False"
        /\ raised_at[q] = "none"
        /\ users[call[p].username].balance = 0

\* C15: the transactions table is append-only: every step leaves the rows
\* that were committed in place and unchanged, so the committed log of a
\* state is a prefix, in id order, of the committed log of every later
\* state, and the ids (positions) of new rows exceed those of all old rows.
LogAppendOnly ==
    [][/\ Len(transactions') >= Len(transactions)
       /\ SubSeq(transactions', 1, Len(transactions)) = transactions]_vars

\* Some call has appended to a log that already had a row.
LogGrew ==
    \E p \in Procs :
        /\ Returned(p) /\ result[p] = "True"
        /\ call[p].op \in {"deposit", "withdraw", "transfer"}
        /\ started[p].id >= 1
        /\ Len(transactions) > started[p].id

\* C16: no update is lost or applied twice: whatever the interleaving, the
\* committed balance of every existing account is the balance it opened with
\* plus the signed amounts of exactly the deposit, withdraw and transfer
\* calls on it that returned True.
NoLostUpdate ==
    \A u \in DOMAIN users : users[u].balance = credited[u]

\* Two overlapping calls on the same existing account both returned True.
OverlappingUpdatesApplied ==
    \E p, q \in Procs :
        /\ Concurrent(p, q)
        /\ Returned(p) /\ Returned(q)
        /\ result[p] = "True" /\ result[q] = "True"
        /\ call[p].op \in {"withdraw", "transfer"}
        /\ call[q].op \in {"deposit", "withdraw", "transfer"}
        /\ call[p].username = call[q].username
        /\ started[p].balance # NoRow
        /\ users[call[p].username].balance # started[p].balance[1]

\* Caller p's transfer waits for the write lock another connection holds.
Waiting(p) ==
    /\ pc[p] \in {"tr_debit", "tr_credit", "tr_log_out", "tr_log_in",
                  "tr_commit"}
    /\ writer \notin {0, p}

\* p and q are inside transfers in opposite directions.
Opposite(p, q) ==
    /\ p # q
    /\ pc[p] # "idle" /\ pc[q] # "idle"
    /\ call[p].op = "transfer" /\ call[q].op = "transfer"
    /\ call[p].username = call[q].other
    /\ call[p].other = call[q].username

\* C13: when transfer(A, B, x) and transfer(B, A, y) run concurrently, no
\* state has both waiting for the other's lock, and under fair scheduling
\* each of the two calls eventually returns.
OppositeTransfersReturn ==
    /\ [](\A p, q \in Procs :
            Opposite(p, q) => ~(Waiting(p) /\ Waiting(q)))
    /\ \A p, q \in Procs : Opposite(p, q) ~> (pc[p] = "idle")

\* Two opposite transfers passed their checks; one holds the write lock in
\* mid-transaction and the other waits for it.
OppositeTransferWaits ==
    \E p, q \in Procs :
        /\ Opposite(p, q)
        /\ writer = p /\ pc[p] = "tr_log_out"
        /\ Waiting(q)

\* C17: when no withdraw or transfer overlaps another mutating call, every
\* committed balance is >= 0: the balance a withdraw or transfer debits is
\* still the one its SELECT fetched, and that one is >= amount.
IsolatedDebitsKeepNonNegative ==
    /\ [](\A u \in DOMAIN users : users[u].balance >= 0)
    /\ [][\A p \in Procs :
            (StepBy(p) /\ pc[p] \in {"wd_update", "tr_debit"}
               /\ pc'[p] # "idle")
            => /\ row[p] # NoRow
               /\ users[call[p].username].balance = row[p][1]
               /\ row[p][1] >= call[p].amount]_vars

\* A withdraw running alone took the whole balance it had checked.
IsolatedWithdrawToZero ==
    \E p \in Procs :
        /\ Returned(p) /\ result[p] = "True"
        /\ call[p].op = "withdraw"
        /\ row[p] = <<call[p].amount>>
        /\ users[call[p].username].balance = 0

\* The step is a read call (it counts as a call and moves no caller).
ReadStep(op) ==
    /\ ncalls' # ncalls
    /\ pc' = pc
    /\ fetched'.op = op

\* The ids of the committed rows whose username is u.
IdsOf(u) == {i \in DOMAIN transactions : transactions[i].username = u}

UnknownBalanceDistinguishable ==
    (fetched.op = "get_balance" /\ fetched.username \notin DOMAIN users)
    => fetched.value # 0

\* C14, amended: get_balance returns the committed balance of an existing
\* account and 0 for a username that has no account, which is also what
\* it returns for an account whose balance is 0.
UnknownBalanceIsZero ==
    [][ReadStep("get_balance")
       => fetched'.value =
            IF fetched'.username \in DOMAIN users
              THEN users[fetched'.username].balance
              ELSE 0]_vars

\* get_balance was called for a username that has no account.
UnknownBalanceFetched ==
    /\ fetched.op = "get_balance"
    /\ fetched.username \notin DOMAIN users
    /\ fetched.value = 0
    /\ \E u \in DOMAIN users : users[u].balance = 0
\* ---- the sessions of giri.py
\* C18: in every state a logged-in session's username is non-empty and is
\* the username of an existing account, and every deposit, withdraw and
\* transfer a session issued has an existing account as its primary party.
SessionUserExists ==
    \A p \in Procs :
        /\ logged_in[p] => /\ session_username[p] # ""
                           /\ session_username[p] \in DOMAIN users
        /\ call[p].op \in {"deposit", "withdraw", "transfer"}
              => call[p].username \in DOMAIN users

\* A logged-in session's deposit has been committed.
SessionDeposited ==
    \E p \in Procs : /\ logged_in[p]
                     /\ call[p].op = "deposit"
                     /\ Returned(p) /\ result[p] = "True"

\* Session p enters a deposit, withdraw or transfer in this step.
Entered(p) ==
    /\ pc[p] = "idle" /\ pc'[p] # "idle"
    /\ call'[p].op \in {"deposit", "withdraw", "transfer"}

\* Session p reads with op in this step.
ReadBy(p, op) == ReadStep(op) /\ fetched'.by = p

\* C19: a session invokes deposit, withdraw, transfer, get_transactions
\* and get_all_users only while it is logged in, with its own username as
\* the account or sender; selecting Logout leaves the session logged out,
\* and it becomes logged in again only by a login that succeeds.
ProtectedCallsNeedLogin ==
    /\ [](\A p \in Procs : choice[p] = "Logout" => ~logged_in[p])
    /\ [][\A p \in Procs :
            /\ Entered(p) => /\ logged_in[p]
                             /\ call'[p].username = session_username[p]
            /\ ReadBy(p, "get_transactions")
                  => /\ logged_in[p]
                     /\ fetched'.username = session_username[p]
            /\ ReadBy(p, "get_all_users") => logged_in[p]
            /\ (~logged_in[p] /\ logged_in'[p])
                  => /\ ReadBy(p, "login")
                     /\ fetched'.value = TRUE
                     /\ fetched'.username = session_username'[p]]_vars

\* A session made a call from its Dashboard and then selected Logout.
LoggedOutAfterCall ==
    \E p \in Procs : /\ choice[p] = "Logout"
                     /\ call[p].op \in {"deposit", "withdraw", "transfer"}
                     /\ Returned(p)

====
